---------------------------- MODULE Spec2Model ----------------------------
(***************************************************************************)
(* Category lookup and ranking of the Naver search MCP server              *)
(* (src/src/handlers/category.handlers.ts): the lazily loaded taxonomy     *)
(* cache, the find_category handler and the scoring functions it uses;     *)
(* and the life of the server instance that owns them (index.ts,           *)
(* memory-manager.ts, the client singleton).                               *)
(*                                                                         *)
(* A JavaScript string is a sequence of one-character strings.  A category *)
(* record is a record with a code and the level fields it has: a level may *)
(* be absent (undefined) or hold a string, the empty one included.         *)
(***************************************************************************)
EXTENDS Integers, Sequences, FiniteSets, TLC

VARIABLES
    bundled,          \* content of <cwd>/dist/data/categories.json
    source,           \* content of <cwd>/data/categories.json
    categoriesCache,  \* module variable categoriesCache
    calls,            \* find_category calls: position, arguments, result
    lastLoad,         \* what the latest getCategoriesData call did and returned
    resetOf,          \* what clearCategoriesCache dropped, until the next load
    fnArgs,           \* arguments handed to the scoring functions
    fnOut,            \* what the scoring functions returned for fnArgs
    server,           \* module state of the server, its client and monitor
    lastCall          \* the latest createNaverSearchServer or
                      \* resetServerInstance call: state around it, result

vars == <<bundled, source, categoriesCache, calls, lastLoad, resetOf,
          fnArgs, fnOut, server, lastCall>>

catVars == <<bundled, source, categoriesCache, calls, lastLoad, resetOf>>

fnVars == <<fnArgs, fnOut>>

srvVars == <<server, lastCall>>

-----------------------------------------------------------------------------
(* Bounds of the model                                                     *)

\* longest level text handed to the scoring functions on their own
MaxStrLen == 4

\* longest query handed to the scoring functions on their own
MaxQueryLen == 3

\* most records in an enumerated taxonomy
MaxRecords == 3

\* find_category calls that may be in flight together
NumCalls == 1

\* find_category calls in flight together over a dataset that stays as it is
NumLookups == 2

\* McpServer objects created in one run
MaxServers == 2

\* cache clearing callbacks of resetServerInstance waiting to run
MaxPendingClears == 2

\* NaverSearchClient objects constructed in one run
MaxClients == 2

\* performMemoryCleanup calls waiting at their 100 ms pause
MaxCleanupsInFlight == 1

\* monitor ticks in a run of the server
MaxServerTicks == 1

\* monitor ticks in a run of the monitor on its own
MaxMonitorTicks == 12

-----------------------------------------------------------------------------
(* Strings                                                                 *)

Min(a, b) == IF a < b THEN a ELSE b

Max(a, b) == IF a > b THEN a ELSE b

\* String.prototype.toLowerCase on one character
LowerChar(c) ==
    CASE c = "A" -> "a"
      [] c = "B" -> "b"
      [] c = "C" -> "c"
      [] OTHER -> c

ToLowerCase(s) == [i \in 1..Len(s) |-> LowerChar(s[i])]

IsSpace(c) == c = " "

RECURSIVE TrimStart(_)
TrimStart(s) ==
    IF s # <<>> /\ IsSpace(Head(s)) THEN TrimStart(Tail(s)) ELSE s

RECURSIVE TrimEnd(_)
TrimEnd(s) ==
    IF s # <<>> /\ IsSpace(s[Len(s)])
    THEN TrimEnd(SubSeq(s, 1, Len(s) - 1))
    ELSE s

\* String.prototype.trim
Trim(s) == TrimEnd(TrimStart(s))

\* String.prototype.startsWith
StartsWith(s, p) == Len(p) <= Len(s) /\ SubSeq(s, 1, Len(p)) = p

\* String.prototype.includes
Includes(s, p) ==
    \E i \in 0..(Len(s) - Len(p)) : SubSeq(s, i + 1, i + Len(p)) = p

\* String.prototype.localeCompare on category codes (digit strings): the
\* first differing digit decides, a proper prefix sorts first.
RECURSIVE LocaleCompare(_, _)
LocaleCompare(a, b) ==
    IF a = <<>> /\ b = <<>> THEN 0
    ELSE IF a = <<>> THEN -1
    ELSE IF b = <<>> THEN 1
    ELSE IF Head(a) < Head(b) THEN -1
    ELSE IF Head(a) > Head(b) THEN 1
    ELSE LocaleCompare(Tail(a), Tail(b))

-----------------------------------------------------------------------------
(* Similarity scorer                                                       *)

Min3(a, b, c) == Min(a, Min(b, c))

\* A row filled with the substitution cost the wrong way round: 1 for
\* equal characters, 0 for different ones.
RECURSIVE FillRowInvertedCost(_, _, _, _, _)
FillRowInvertedCost(str1, str2, j, prev, row) ==
    IF Len(row) > Len(str1) THEN row
    ELSE LET i == Len(row)
             substitutionCost == IF str1[i] = str2[j] THEN 1 ELSE 0
         IN  FillRowInvertedCost(str1, str2, j, prev,
                                 Append(row, Min3(row[i] + 1,
                                                  prev[i + 1] + 1,
                                                  prev[i] + substitutionCost)))

\* Row j of the matrix of levenshteinDistance, filled from i = 1 on: row
\* holds matrix[j][0..i-1] and prev holds matrix[j-1] (index i is at
\* position i + 1 of the sequence).
RECURSIVE FillRow(_, _, _, _, _)
FillRow(str1, str2, j, prev, row) ==
    IF Len(row) > Len(str1) THEN row
    ELSE LET i == Len(row)
             substitutionCost == IF str1[i] = str2[j] THEN 0 ELSE 1
         IN  FillRow(str1, str2, j, prev,
                     Append(row, Min3(row[i] + 1,
                                      prev[i + 1] + 1,
                                      prev[i] + substitutionCost)))

\* The rows of the matrix from row j on; the last row is returned.
RECURSIVE FillMatrix(_, _, _, _)
FillMatrix(str1, str2, j, prev) ==
    IF j > Len(str2) THEN prev
    ELSE FillMatrix(str1, str2, j + 1, FillRow(str1, str2, j, prev, <<j>>))

\* A distance whose row 0 is left at 0 instead of matrix[0][i] = i.
levenshteinDistanceZeroRow(str1, str2) ==
    FillMatrix(str1, str2, 1,
               [i \in 1..(Len(str1) + 1) |-> 0])[Len(str1) + 1]

\* levenshteinDistance: matrix[0][i] = i, matrix[j][0] = j, the rest filled
\* row by row; the result is matrix[str2.length][str1.length].
levenshteinDistance(str1, str2) ==
    FillMatrix(str1, str2, 1,
               [i \in 1..(Len(str1) + 1) |-> i - 1])[Len(str1) + 1]

\* A similarity that divides by the length of the shorter string.
calculateSimilarityOverShorter(str1, str2) ==
    LET longer  == IF Len(str1) > Len(str2) THEN str1 ELSE str2
        shorter == IF Len(str1) > Len(str2) THEN str2 ELSE str1
    IN  IF Len(longer) = 0
        THEN [num |-> 1, den |-> 1]
        ELSE [num |-> Len(longer) - levenshteinDistance(longer, shorter),
              den |-> Len(shorter)]

\* A similarity that takes its first argument for the longer string.
calculateSimilarityByFirst(str1, str2) ==
    IF Len(str1) = 0
    THEN [num |-> 1, den |-> 1]
    ELSE [num |-> Len(str1) - levenshteinDistance(str1, str2),
          den |-> Len(str1)]

\* calculateSimilarity: the fraction num / den (1.0 is 1 / 1).
calculateSimilarity(str1, str2) ==
    LET longer  == IF Len(str1) > Len(str2) THEN str1 ELSE str2
        shorter == IF Len(str1) > Len(str2) THEN str2 ELSE str1
    IN  IF Len(longer) = 0
        THEN [num |-> 1, den |-> 1]
        ELSE [num |-> Len(longer) - levenshteinDistance(longer, shorter),
              den |-> Len(longer)]

-----------------------------------------------------------------------------
(* Category matcher                                                        *)

\* levels[k].name: 1 = 대분류, 2 = 중분류, 3 = 소분류, 4 = 세분류
LevelNames == 1..4

\* The bonuses of 대분류 and 중분류 exchanged.
levelBonusSwapped(name) ==
    IF name = 1 THEN 30
    ELSE IF name = 2 THEN 50
    ELSE IF name = 3 THEN 20
    ELSE IF name = 4 THEN 10
    ELSE 0

levelBonus(name) ==
    IF name = 1 THEN 50
    ELSE IF name = 2 THEN 30
    ELSE IF name = 3 THEN 20
    ELSE IF name = 4 THEN 10
    ELSE 0

\* bestScore = 0, bestMatchType = ''
NoMatch == [score |-> 0, matchType |-> [tier |-> "", level |-> 0]]

\* The threshold taken as similarity >= 0.6.
AboveThresholdInclusive(similarity) ==
    5 * similarity.num >= 3 * similarity.den

\* similarity > 0.6, on the fraction
AboveThreshold(similarity) == 5 * similarity.num > 3 * similarity.den

\* A fuzzy score on a 0..100 scale instead of 0..40.
FuzzyPointsPercent(similarity) == (100 * similarity.num) \div similarity.den

\* Math.floor(similarity * 40)
FuzzyPoints(similarity) == (40 * similarity.num) \div similarity.den

\* Body of the loop over the levels of one record, for one level whose value
\* is not falsy: the score and match type of the level.
LevelMatch(name, value, searchQuery) ==
    LET levelText == ToLowerCase(value)
        similarity == calculateSimilarity(searchQuery, levelText)
    IN  IF levelText = searchQuery
        THEN [score |-> 100 + levelBonus(name),
              matchType |-> [tier |-> "exact", level |-> name]]
        ELSE IF StartsWith(levelText, searchQuery)
        THEN [score |-> 80 + levelBonus(name),
              matchType |-> [tier |-> "prefix", level |-> name]]
        ELSE IF Includes(levelText, searchQuery)
        THEN [score |-> 60 + levelBonus(name),
              matchType |-> [tier |-> "contains", level |-> name]]
        ELSE IF AboveThreshold(similarity)
        THEN [score |-> FuzzyPoints(similarity) + levelBonus(name),
              matchType |-> [tier |-> "fuzzy", level |-> name]]
        ELSE NoMatch

LevelField(k) ==
    CASE k = 1 -> "level1"
      [] k = 2 -> "level2"
      [] k = 3 -> "level3"
      [] k = 4 -> "level4"

\* `category.levelK || ''`: the text of level k of a record, the empty
\* string when the level is absent.  The loop skips a level on `!level.value`,
\* which holds of an absent level and of the empty string alike.
LevelValue(category, k) ==
    IF LevelField(k) \in DOMAIN category
    THEN category[LevelField(k)]
    ELSE <<>>

\* The loop with every scoring level replacing the best one so far.
RECURSIVE BestFromLast(_, _, _, _)
BestFromLast(category, searchQuery, k, best) ==
    IF k > 4 THEN best
    ELSE LET value == LevelValue(category, k)
             match == IF value = <<>>
                      THEN NoMatch
                      ELSE LevelMatch(k, value, searchQuery)
         IN  BestFromLast(category, searchQuery, k + 1,
                          IF match.score > 0 THEN match ELSE best)

\* The loop over the four levels of one record from level k on: a level
\* replaces the best one so far only with a strictly greater score.
RECURSIVE BestFrom(_, _, _, _)
BestFrom(category, searchQuery, k, best) ==
    IF k > 4 THEN best
    ELSE LET value == LevelValue(category, k)
             match == IF value = <<>>
                      THEN NoMatch
                      ELSE LevelMatch(k, value, searchQuery)
         IN  BestFrom(category, searchQuery, k + 1,
                      IF match.score > best.score THEN match ELSE best)

BestMatch(category, searchQuery) == BestFrom(category, searchQuery, 1, NoMatch)

\* { ...category, score: bestScore, matchType: bestMatchType }
Candidate(category, best) ==
    [field \in DOMAIN category \cup {"score", "matchType"} |->
        CASE field = "score" -> best.score
          [] field = "matchType" -> best.matchType
          [] OTHER -> category[field]]

\* The loop over the records: one candidate per record with bestScore > 0,
\* in the order of the records.
RECURSIVE CollectResults(_, _)
CollectResults(categories, searchQuery) ==
    IF categories = <<>> THEN <<>>
    ELSE LET best == BestMatch(Head(categories), searchQuery)
             rest == CollectResults(Tail(categories), searchQuery)
         IN  IF best.score > 0
             THEN <<Candidate(Head(categories), best)>> \o rest
             ELSE rest

-----------------------------------------------------------------------------
(* Ranker / selector                                                       *)

\* The comparator without its tie-break on the code.
CompareByScoreOnly(a, b) == b.score - a.score

\* The comparator handed to sort: negative when a comes first.
CompareCandidates(a, b) ==
    IF b.score # a.score
    THEN b.score - a.score
    ELSE LocaleCompare(a.code, b.code)

\* x put into a sorted sequence behind every element that does not come
\* after it.
RECURSIVE InsertSorted(_, _)
InsertSorted(x, sorted) ==
    IF sorted = <<>> THEN <<x>>
    ELSE IF CompareCandidates(Head(sorted), x) <= 0
    THEN <<Head(sorted)>> \o InsertSorted(x, Tail(sorted))
    ELSE <<x>> \o sorted

\* Array.prototype.sort with CompareCandidates: a stable sort.
RECURSIVE SortResults(_)
SortResults(results) ==
    IF results = <<>> THEN <<>>
    ELSE InsertSorted(results[Len(results)],
                      SortResults(SubSeq(results, 1, Len(results) - 1)))

\* slice(0, end) that keeps the element at index end as well.
SliceInclusive(array, end) ==
    LET k == IF end < 0 THEN Max(Len(array) + end + 1, 0)
             ELSE Min(end + 1, Len(array))
    IN  SubSeq(array, 1, k)

\* Array.prototype.slice(0, end): a negative end counts from the end.
Slice(array, end) ==
    LET k == IF end < 0 THEN Max(Len(array) + end, 0)
             ELSE Min(end, Len(array))
    IN  SubSeq(array, 1, k)

\* A search that writes score and matchType into the record it matched
\* (Object.assign(category, ...)) instead of into a copy of it.
CategoriesAfterSearchAnnotated(categories, query) ==
    IF query.kind # "string" \/ categories.kind # "array"
    THEN categories
    ELSE LET searchQuery == Trim(ToLowerCase(query.chars))
             records == categories.records
         IN  [kind |-> "array",
              records |-> [i \in 1..Len(records) |->
                  LET best == BestMatch(records[i], searchQuery)
                  IN  IF best.score > 0
                      THEN Candidate(records[i], best)
                      ELSE records[i]]]

\* The array `categories` as smartCategorySearch leaves it: the loops read
\* the records and their levels, `results` gets a copy of each matching
\* record ({ ...category, score, matchType }), and sort and slice work on
\* `results`.
CategoriesAfterSearch(categories, query) == categories

\* smartCategorySearch from the point where `await loadCategoryData()` has
\* delivered `categories`.  query is [kind |-> "string", chars |-> ...] or
\* [kind |-> "undefined"]; categories is the value getCategoriesData returned.
\* `query.toLowerCase()` of undefined and `for ... of` over a value that is
\* not an array throw a TypeError.
smartCategorySearch(categories, query, maxResults) ==
    IF query.kind # "string" \/ categories.kind # "array"
    THEN [threw |-> TRUE]
    ELSE LET searchQuery == Trim(ToLowerCase(query.chars))
             results == CollectResults(categories.records, searchQuery)
         IN  [threw |-> FALSE,
              results |-> Slice(SortResults(results), maxResults)]

-----------------------------------------------------------------------------
(* Result formatter and handler                                            *)

Suggestions ==
    <<"fashion", "cosmetics", "furniture", "smartphone", "appliances",
      "sports", "books", "cars", "food", "beauty">>

NextSteps ==
    {"trend_analysis", "age_analysis", "gender_analysis", "device_analysis"}

\* A breadcrumb of all four levels, the empty ones included.
JoinAll(levels) == levels

\* [level1, level2, level3, level4].filter(Boolean): the breadcrumb's parts
RECURSIVE JoinNonEmpty(_)
JoinNonEmpty(levels) ==
    IF levels = <<>> THEN <<>>
    ELSE IF Head(levels) = <<>> THEN JoinNonEmpty(Tail(levels))
    ELSE <<Head(levels)>> \o JoinNonEmpty(Tail(levels))

FormatCategory(cat) ==
    [code |-> cat.code,
     category |-> JoinNonEmpty([k \in 1..4 |-> LevelValue(cat, k)]),
     match_type |-> cat.matchType,
     score |-> cat.score,
     levels |-> [k \in 1..4 |-> LevelValue(cat, k)]]

NoResultsResponse(query) ==
    [message |-> [text |-> "not found", query |-> query],
     suggestions |-> Suggestions]

ResultsResponse(query, results) ==
    [message |-> [text |-> "results", query |-> query,
                  count |-> Len(results)],
     total_found |-> Len(results),
     categories |-> [i \in 1..Len(results) |-> FormatCategory(results[i])],
     next_steps |-> NextSteps]

\* throw new Error(`카테고리 검색 중 오류 발생: ...`)
ErrorResponse == [error |-> "category search failed"]

\* The parameter default `max_results = 10`
DefaultMaxResults == 10

\* An absent query is undefined.
QueryOf(args) ==
    IF "query" \in DOMAIN args
    THEN [kind |-> "string", chars |-> args.query]
    ELSE [kind |-> "undefined"]

MaxResultsOf(args) ==
    IF "max_results" \in DOMAIN args THEN args.max_results
    ELSE DefaultMaxResults

\* A handler that answers an empty result list in the results shape.
HandlerResponseNoEmptyBranch(args, categories) ==
    LET search == smartCategorySearch(categories, QueryOf(args),
                                      MaxResultsOf(args))
    IN  IF search.threw THEN ErrorResponse
        ELSE ResultsResponse(args.query, search.results)

\* findCategoryHandler from the point where the taxonomy has been loaded.
HandlerResponse(args, categories) ==
    LET search == smartCategorySearch(categories, QueryOf(args),
                                      MaxResultsOf(args))
    IN  IF search.threw THEN ErrorResponse
        ELSE IF Len(search.results) = 0
        THEN NoResultsResponse(args.query)
        ELSE ResultsResponse(args.query, search.results)

-----------------------------------------------------------------------------
(* Taxonomy store                                                          *)

\* A dataset file: absent, text JSON.parse rejects, JSON that is no array
\* (an object such as {}), or a JSON array of category records.
Missing == [kind |-> "missing"]

Unparsable == [kind |-> "unparsable"]

ObjectJson == [kind |-> "object"]

ArrayJson(records) == [kind |-> "array", records |-> records]

\* categoriesCache = null
NullCache == [kind |-> "null"]

\* the literal [] returned by the catch block
EmptyArray == [kind |-> "array", records |-> <<>>]

\* getCategoriesData that reads the files on every call and never returns
\* the cached array.
getCategoriesDataUncached(cache, bundledFile, sourceFile) ==
    IF bundledFile.kind # "missing"
    THEN IF bundledFile.kind = "unparsable"
         THEN [cache |-> cache, result |-> EmptyArray, io |-> "parse error"]
         ELSE [cache |-> bundledFile, result |-> bundledFile,
               io |-> "bundled"]
    ELSE IF sourceFile.kind # "missing"
    THEN IF sourceFile.kind = "unparsable"
         THEN [cache |-> cache, result |-> EmptyArray, io |-> "parse error"]
         ELSE [cache |-> sourceFile, result |-> sourceFile, io |-> "source"]
    ELSE [cache |-> cache, result |-> EmptyArray, io |-> "not found"]

\* A getCategoriesData that keeps the [] of the catch block as the cache.
getCategoriesDataCachingFailure(cache, bundledFile, sourceFile) ==
    IF cache.kind # "null"
    THEN [cache |-> cache, result |-> cache, io |-> "cache"]
    ELSE IF bundledFile.kind # "missing"
    THEN IF bundledFile.kind = "unparsable"
         THEN [cache |-> EmptyArray, result |-> EmptyArray,
               io |-> "parse error"]
         ELSE [cache |-> bundledFile, result |-> bundledFile,
               io |-> "bundled"]
    ELSE IF sourceFile.kind # "missing"
    THEN IF sourceFile.kind = "unparsable"
         THEN [cache |-> EmptyArray, result |-> EmptyArray,
               io |-> "parse error"]
         ELSE [cache |-> sourceFile, result |-> sourceFile, io |-> "source"]
    ELSE [cache |-> EmptyArray, result |-> EmptyArray, io |-> "not found"]

\* getCategoriesData: the new value of categoriesCache, the value returned
\* and what the call did (io): answered from the cache, parsed the bundled
\* or the source file, or caught an error (a parse error, or no file found).
getCategoriesData(cache, bundledFile, sourceFile) ==
    IF cache.kind # "null"
    THEN [cache |-> cache, result |-> cache, io |-> "cache"]
    ELSE IF bundledFile.kind # "missing"
    THEN IF bundledFile.kind = "unparsable"
         THEN [cache |-> cache, result |-> EmptyArray, io |-> "parse error"]
         ELSE [cache |-> bundledFile, result |-> bundledFile,
               io |-> "bundled"]
    ELSE IF sourceFile.kind # "missing"
    THEN IF sourceFile.kind = "unparsable"
         THEN [cache |-> cache, result |-> EmptyArray, io |-> "parse error"]
         ELSE [cache |-> sourceFile, result |-> sourceFile, io |-> "source"]
    ELSE [cache |-> cache, result |-> EmptyArray, io |-> "not found"]

\* The readFileSync calls of one getCategoriesData, in order: none when the
\* cache answers, else one of the first file that exists, none when neither
\* exists.
filesRead(cache, bundledFile, sourceFile) ==
    IF cache.kind # "null" THEN <<>>
    ELSE IF bundledFile.kind # "missing" THEN <<"bundled">>
    ELSE IF sourceFile.kind # "missing" THEN <<"source">>
    ELSE <<>>

\* A cache reset that leaves the cached array in place.
clearedCacheKept(cache) == cache

\* The value clearCategoriesCache assigns to categoriesCache.
clearedCache(cache) == NullCache

-----------------------------------------------------------------------------
(* Operations                                                              *)

Idle == [pc |-> "idle"]

NoLoad == [io |-> "none"]

NoReset == [kind |-> "no reset"]

\* What came before a load: nothing yet, a cache reset (with the value it
\* dropped), or the latest load, which got a value from a file or the cache
\* ("loaded") or was caught failing ("failed").
Before ==
    IF resetOf # NoReset THEN [what |-> "reset", cached |-> resetOf]
    ELSE IF lastLoad.io = "none" THEN [what |-> "nothing"]
    ELSE IF lastLoad.io \in {"parse error", "not found"}
    THEN [what |-> "failed"]
    ELSE [what |-> "loaded"]

\* findCategoryHandler(args) up to the first await: smartCategorySearch
\* calls loadCategoryData, which calls getCategoriesData at once.
FindCategoryCall(c, args) ==
    /\ calls[c].pc \in {"idle", "done"}
    /\ LET load == getCategoriesData(categoriesCache, bundled, source)
       IN  /\ categoriesCache' = load.cache
           /\ lastLoad' = [io |-> load.io, result |-> load.result,
                           reads |-> filesRead(categoriesCache, bundled,
                                               source),
                           before |-> Before,
                           inFlight |-> {d \in DOMAIN calls :
                                            calls[d].pc = "loaded"}]
           /\ calls' = [calls EXCEPT ![c] =
                           [pc |-> "loaded", args |-> args,
                            categories |-> load.result, io |-> load.io]]
    /\ resetOf' = NoReset
    /\ UNCHANGED <<bundled, source, fnVars, srvVars>>

\* The array the call works on is the cached one unless the cache has been
\* reset since the call loaded it: the value of categoriesCache once the
\* call has worked on `categories`.
CacheAfterSearch(c) ==
    IF categoriesCache = calls[c].categories
    THEN CategoriesAfterSearch(calls[c].categories, QueryOf(calls[c].args))
    ELSE categoriesCache

\* A handler that reads the module's cache again when the load resumes
\* instead of using the array the load returned.
FindCategoryResumeFromCache(c) ==
    /\ calls[c].pc = "loaded"
    /\ calls' = [calls EXCEPT ![c] =
                    [pc |-> "done", args |-> calls[c].args,
                     categories |-> calls[c].categories, io |-> calls[c].io,
                     response |-> HandlerResponse(calls[c].args,
                                                  categoriesCache)]]
    /\ categoriesCache' = CacheAfterSearch(c)
    /\ UNCHANGED <<bundled, source, lastLoad, resetOf, fnVars,
                   srvVars>>

\* The rest of the handler, run when the awaited load resumes: matching,
\* ranking, truncation and formatting, or the rethrown error.
FindCategoryResume(c) ==
    /\ calls[c].pc = "loaded"
    /\ calls' = [calls EXCEPT ![c] =
                    [pc |-> "done", args |-> calls[c].args,
                     categories |-> calls[c].categories, io |-> calls[c].io,
                     response |-> HandlerResponse(calls[c].args,
                                                  calls[c].categories)]]
    /\ categoriesCache' = CacheAfterSearch(c)
    /\ UNCHANGED <<bundled, source, lastLoad, resetOf, fnVars,
                   srvVars>>

\* clearCategoriesCache()
ClearCategoriesCache ==
    /\ categoriesCache' = clearedCache(categoriesCache)
    /\ resetOf' = categoriesCache
    /\ UNCHANGED <<bundled, source, calls, lastLoad, fnVars, srvVars>>

\* The environment replaces, creates or removes the bundled dataset file.
WriteBundled(content) ==
    /\ bundled # content
    /\ bundled' = content
    /\ UNCHANGED <<source, categoriesCache, calls, lastLoad, resetOf,
                   fnVars, srvVars>>

\* The environment replaces, creates or removes the source dataset file.
WriteSource(content) ==
    /\ source # content
    /\ source' = content
    /\ UNCHANGED <<bundled, categoriesCache, calls, lastLoad, resetOf,
                   fnVars, srvVars>>

-----------------------------------------------------------------------------
(* Server instance, client singleton and memory monitor                    *)

\* null
Null == [kind |-> "null"]

\* The tools createNaverSearchServer registers on a new McpServer.
ToolNames ==
    { "search_webkr", "search_news", "search_blog", "search_shop",
      "search_image", "search_kin", "search_book", "search_encyc",
      "search_academic", "search_local", "search_cafearticle",
      "datalab_search", "datalab_shopping_category",
      "datalab_shopping_by_device", "datalab_shopping_by_gender",
      "datalab_shopping_by_age", "datalab_shopping_keywords",
      "datalab_shopping_keyword_by_device",
      "datalab_shopping_keyword_by_gender",
      "datalab_shopping_keyword_by_age", "get_current_korean_time",
      "find_category" }

\* The n-th McpServer object created, and the protocol Server it wraps
\* (its `server` property).
McpServer(n) == [kind |-> "McpServer", id |-> n]

WrappedServer(n) == [kind |-> "Server", of |-> n]

\* An interval timer handed out by setInterval.
Timer(n) == [kind |-> "timer", n |-> n]

\* The state of a process that has created no server: globalServerInstance
\* and currentConfig of index.ts, NaverSearchClient.instance,
\* globalMemoryMonitor of memory-manager.ts, the interval timers that are
\* set, the `import(...).then(clearCategoriesCache)` callbacks that have not
\* run yet, and the McpServer objects created so far (per object: the number
\* of registerTool calls made on it and what the call that created it
\* returned); the NaverSearchClient objects that are no longer the
\* singleton, the performMemoryCleanup calls waiting at their pause, the
\* time (Date.now(), one unit per tick) and every sample getMemoryUsage has
\* handed to a monitor tick, in order.
NoServer ==
    [globalServerInstance |-> Null,
     currentConfig |-> Null,
     instance |-> Null,
     globalMemoryMonitor |-> Null,
     timers |-> {},
     pendingClears |-> 0,
     servers |-> <<>>,
     destroyed |-> <<>>,
     cleanupsInFlight |-> 0,
     clock |-> 0,
     sampled |-> <<>>]

NoCall == [op |-> "none"]

\* MemoryMonitor.stop of the monitor object m: [monitor, timers] after it
MonitorStop(m, timers) ==
    IF m.intervalId # Null
    THEN [monitor |-> [m EXCEPT !.intervalId = Null],
          timers |-> timers \ {m.intervalId}]
    ELSE [monitor |-> m, timers |-> timers]

\* A start that sets a new timer without stopping a running monitor.
MonitorStartNoStop(m, timers) ==
    LET n == CHOOSE k \in 1..(Cardinality(timers) + 1) :
                 Timer(k) \notin timers
    IN  [monitor |-> [m EXCEPT !.intervalId = Timer(n)],
         timers |-> timers \cup {Timer(n)}]

\* MemoryMonitor.start of the monitor object m: a running monitor is
\* stopped first, then setInterval hands out a new timer.
MonitorStart(m, timers) ==
    LET stopped == IF m.intervalId # Null
                   THEN MonitorStop(m, timers)
                   ELSE [monitor |-> m, timers |-> timers]
        n == CHOOSE k \in 1..(Cardinality(stopped.timers) + 1) :
                 Timer(k) \notin stopped.timers
    IN  [monitor |-> [stopped.monitor EXCEPT !.intervalId = Timer(n)],
         timers |-> stopped.timers \cup {Timer(n)}]

\* new MemoryMonitor()
NewMemoryMonitor == [intervalId |-> Null, memoryHistory |-> <<>>]

startGlobalMemoryMonitoring(s) ==
    LET m == IF s.globalMemoryMonitor = Null
             THEN NewMemoryMonitor
             ELSE s.globalMemoryMonitor
        started == MonitorStart(m, s.timers)
    IN  [s EXCEPT !.globalMemoryMonitor = started.monitor,
                  !.timers = started.timers]

stopGlobalMemoryMonitoring(s) ==
    IF s.globalMemoryMonitor # Null
    THEN [s EXCEPT !.globalMemoryMonitor = Null,
                   !.timers = MonitorStop(s.globalMemoryMonitor,
                                          s.timers).timers]
    ELSE s

\* The NaverSearchClient objects constructed so far.
ClientsCreated(s) ==
    Len(s.destroyed) + (IF s.instance = Null THEN 0 ELSE 1)

\* A getInstance that constructs a client on every call.
getInstanceAlwaysNew(s) ==
    IF s.instance = Null
    THEN [s EXCEPT !.instance = [id |-> ClientsCreated(s) + 1,
                                 config |-> Null]]
    ELSE [s EXCEPT !.destroyed = Append(@, s.instance),
                   !.instance = [id |-> ClientsCreated(s) + 1,
                                 config |-> Null]]

\* NaverSearchClient.getInstance: the singleton, constructed with no config
\* when there is none.  `id` tells the objects apart.
getInstance(s) ==
    IF s.instance = Null
    THEN [s EXCEPT !.instance = [id |-> ClientsCreated(s) + 1,
                                 config |-> Null]]
    ELSE s

\* getHeaders of a client: the credentials, or the error thrown when the
\* client has no config.
getHeaders(client) ==
    IF client.config = Null
    THEN [threw |-> TRUE,
          error |-> "NaverApiCoreClient is not initialized."]
    ELSE [threw |-> FALSE,
          headers |-> [clientId |-> client.config.clientId,
                       clientSecret |-> client.config.clientSecret]]

\* cleanup() of a client
cleanup(client) == [client EXCEPT !.config = Null]

\* client.initialize({ clientId, clientSecret }) on the singleton
initialize(s, config) ==
    [s EXCEPT !.instance.config =
        [clientId |-> config.NAVER_CLIENT_ID,
         clientSecret |-> config.NAVER_CLIENT_SECRET]]

\* NaverSearchClient.destroyInstance: cleanup() of the instance, then
\* instance = null.  The object goes on existing for whoever holds it.
destroyInstance(s) ==
    IF s.instance # Null
    THEN [s EXCEPT !.destroyed = Append(@, cleanup(s.instance)),
                   !.instance = Null]
    ELSE s

\* resetServerInstance up to its return: the cache clearing is handed to
\* `import('./handlers/category.handlers.js').then(...)` and runs later.
resetServerInstance(s) ==
    IF s.globalServerInstance # Null
    THEN LET cleaned == destroyInstance(stopGlobalMemoryMonitoring(s))
         IN  [cleaned EXCEPT !.pendingClears = @ + 1,
                             !.globalServerInstance = Null,
                             !.currentConfig = Null]
    ELSE s

isConfigChanged(currentConfig, newConfig) ==
    IF currentConfig = Null THEN TRUE
    ELSE \/ currentConfig.NAVER_CLIENT_ID # newConfig.NAVER_CLIENT_ID
         \/ currentConfig.NAVER_CLIENT_SECRET # newConfig.NAVER_CLIENT_SECRET

\* The part of createNaverSearchServer that runs when no instance is cached:
\* a new McpServer, the client initialized, every tool registered, instance
\* and config cached, monitoring started; `server.server` is returned.
NewServer(s, config) ==
    LET n == Len(s.servers) + 1
        client == initialize(getInstance(s), config)
        cached == [client EXCEPT
                      !.servers = Append(@, [registered |->
                                                 Cardinality(ToolNames),
                                             returned |-> WrappedServer(n)]),
                      !.globalServerInstance = McpServer(n),
                      !.currentConfig = config]
    IN  [state |-> startGlobalMemoryMonitoring(cached),
         returned |-> WrappedServer(n)]

\* createNaverSearchServer({ config }): the state it leaves, what it
\* returns, and the state after the reset of a changed configuration.
createNaverSearchServer(s, config) ==
    LET changed == s.globalServerInstance # Null
                      /\ isConfigChanged(s.currentConfig, config)
        cleaned == IF changed THEN resetServerInstance(s) ELSE s
        result == IF cleaned.globalServerInstance # Null
                  THEN [state |-> cleaned,
                        returned |-> cleaned.globalServerInstance]
                  ELSE NewServer(cleaned, config)
    IN  [state |-> result.state, returned |-> result.returned,
         changed |-> changed, cleaned |-> cleaned]

CreateNaverSearchServer(config) ==
    LET call == createNaverSearchServer(server, config)
    IN  /\ Len(call.state.servers) <= MaxServers
        /\ call.state.pendingClears <= MaxPendingClears
        /\ ClientsCreated(call.state) <= MaxClients
        /\ server' = call.state
        /\ lastCall' = [op |-> "create", config |-> config,
                        before |-> server, after |-> call.state,
                        returned |-> call.returned,
                        changed |-> call.changed, cleaned |-> call.cleaned,
                        cache |-> categoriesCache]
        /\ UNCHANGED <<catVars, fnVars>>

ResetServerInstance ==
    /\ resetServerInstance(server).pendingClears <= MaxPendingClears
    /\ server' = resetServerInstance(server)
    /\ lastCall' = [op |-> "reset", before |-> server,
                    after |-> resetServerInstance(server),
                    cache |-> categoriesCache]
    /\ UNCHANGED <<catVars, fnVars>>

\* The callback resetServerInstance handed to `import(...).then` runs:
\* clearCategoriesCache().
RunCacheClearCallback ==
    /\ server.pendingClears > 0
    /\ server' = [server EXCEPT !.pendingClears = @ - 1]
    /\ categoriesCache' = clearedCache(categoriesCache)
    /\ resetOf' = categoriesCache
    /\ UNCHANGED <<bundled, source, calls, lastLoad, fnVars, lastCall>>

-----------------------------------------------------------------------------
(* Memory health, cleanup and the monitor's tick                           *)

\* MEMORY_THRESHOLDS, in MB
MEMORY_THRESHOLDS == [WARNING |-> 200, CRITICAL |-> 500, EMERGENCY |-> 1024]

\* Bytes in one MB: heapUsedMB = heapUsed / 1024 / 1024
BytesPerMB == 1024 * 1024

\* heapUsedMB > threshold, on the byte count: the two divisions by 1024 are
\* exact.
ExceedsMB(heapUsed, threshold) == heapUsed > threshold * BytesPerMB

\* A check with a value at a threshold in the higher class.
checkMemoryHealthInclusive(heapUsed) ==
    IF heapUsed >= MEMORY_THRESHOLDS.EMERGENCY * BytesPerMB
    THEN "emergency"
    ELSE IF heapUsed >= MEMORY_THRESHOLDS.CRITICAL * BytesPerMB
    THEN "critical"
    ELSE IF heapUsed >= MEMORY_THRESHOLDS.WARNING * BytesPerMB
    THEN "warning"
    ELSE "healthy"

\* checkMemoryHealth().status when process.memoryUsage().heapUsed is
\* heapUsed bytes
checkMemoryHealth(heapUsed) ==
    IF ExceedsMB(heapUsed, MEMORY_THRESHOLDS.EMERGENCY) THEN "emergency"
    ELSE IF ExceedsMB(heapUsed, MEMORY_THRESHOLDS.CRITICAL) THEN "critical"
    ELSE IF ExceedsMB(heapUsed, MEMORY_THRESHOLDS.WARNING) THEN "warning"
    ELSE "healthy"

\* private maxHistorySize = 10
maxHistorySize == 10

\* getMemoryUsage(): the sample taken at time `timestamp`
MemoryStats(timestamp, heapUsed) ==
    [timestamp |-> timestamp, heapUsed |-> heapUsed]

\* A history that drops the newest sample when it is full.
pushHistoryDropNewest(memoryHistory, stats) ==
    IF Len(memoryHistory) >= maxHistorySize THEN memoryHistory
    ELSE Append(memoryHistory, stats)

\* memoryHistory.push(stats), then shift() when it is longer than
\* maxHistorySize
pushHistory(memoryHistory, stats) ==
    LET pushed == Append(memoryHistory, stats)
    IN  IF Len(pushed) > maxHistorySize THEN Tail(pushed) ELSE pushed

\* A tick that cleans up on every status but healthy.
needsAutoCleanupOnWarning(status) == status # "healthy"

\* The tick calls performAutoCleanup on these statuses.
needsAutoCleanup(status) ==
    status # "healthy" /\ (status = "critical" \/ status = "emergency")

\* performMemoryCleanup up to its `await`: the client singleton destroyed
\* (the category cache is cleared in the same step); the call then waits
\* 100 ms.
performMemoryCleanup(s) ==
    [destroyInstance(s) EXCEPT !.cleanupsInFlight = @ + 1]

\* The monitor is running: its interval timer is set.
Running(s) ==
    /\ s.globalMemoryMonitor # Null
    /\ s.globalMemoryMonitor.intervalId \in s.timers

\* The setInterval callback of the running monitor: one sample goes into
\* the history, a second reading of the heap gives the status, and on
\* critical or emergency performAutoCleanup runs up to the pause of
\* performMemoryCleanup.
Tick(sampleHeap, healthHeap) ==
    /\ Running(server)
    /\ LET stats == MemoryStats(server.clock, sampleHeap)
           status == checkMemoryHealth(healthHeap)
           ticked == [server EXCEPT
                         !.globalMemoryMonitor.memoryHistory =
                             pushHistory(@, stats),
                         !.clock = @ + 1,
                         !.sampled = Append(@, stats)]
           after == IF needsAutoCleanup(status)
                    THEN performMemoryCleanup(ticked)
                    ELSE ticked
           cache == IF needsAutoCleanup(status)
                    THEN clearedCache(categoriesCache)
                    ELSE categoriesCache
       IN  /\ after.cleanupsInFlight <= MaxCleanupsInFlight
           /\ server' = after
           /\ categoriesCache' = cache
           /\ resetOf' = IF needsAutoCleanup(status) THEN categoriesCache
                         ELSE resetOf
           /\ lastCall' = [op |-> "tick", heapUsed |-> healthHeap,
                           status |-> status,
                           cleanup |-> after.cleanupsInFlight
                                          > server.cleanupsInFlight,
                           before |-> server, after |-> after,
                           cache |-> categoriesCache, cacheAfter |-> cache]
    /\ UNCHANGED <<bundled, source, calls, lastLoad, fnVars>>

\* performMemoryCleanup() called by hand, up to its pause.
PerformMemoryCleanup ==
    /\ server.cleanupsInFlight < MaxCleanupsInFlight
    /\ server' = performMemoryCleanup(server)
    /\ categoriesCache' = clearedCache(categoriesCache)
    /\ resetOf' = categoriesCache
    /\ lastCall' = [op |-> "cleanup", before |-> server,
                    after |-> performMemoryCleanup(server),
                    cache |-> categoriesCache]
    /\ UNCHANGED <<bundled, source, calls, lastLoad, fnVars>>

\* The pause of a performMemoryCleanup is over: it samples the memory
\* again and returns.
CleanupResume ==
    /\ server.cleanupsInFlight > 0
    /\ server' = [server EXCEPT !.cleanupsInFlight = @ - 1]
    /\ UNCHANGED <<catVars, fnVars, lastCall>>

\* NaverSearchClient.getInstance() called by a handler.
GetInstance ==
    /\ ClientsCreated(getInstance(server)) <= MaxClients
    /\ server' = getInstance(server)
    /\ lastCall' = [op |-> "getInstance", before |-> server,
                    after |-> getInstance(server),
                    returned |-> getInstance(server).instance]
    /\ UNCHANGED <<catVars, fnVars>>

\* NaverSearchClient.destroyInstance() called on its own.
DestroyInstance ==
    /\ server' = destroyInstance(server)
    /\ lastCall' = [op |-> "destroyInstance", before |-> server,
                    after |-> destroyInstance(server)]
    /\ UNCHANGED <<catVars, fnVars>>

StartGlobalMemoryMonitoring ==
    /\ server' = startGlobalMemoryMonitoring(server)
    /\ lastCall' = [op |-> "startGlobalMemoryMonitoring",
                    before |-> server,
                    after |-> startGlobalMemoryMonitoring(server)]
    /\ UNCHANGED <<catVars, fnVars>>

StopGlobalMemoryMonitoring ==
    /\ server' = stopGlobalMemoryMonitoring(server)
    /\ lastCall' = [op |-> "stopGlobalMemoryMonitoring",
                    before |-> server,
                    after |-> stopGlobalMemoryMonitoring(server)]
    /\ UNCHANGED <<catVars, fnVars>>

\* start() on the monitor getGlobalMemoryMonitor() returns
MemoryMonitorStart ==
    /\ server.globalMemoryMonitor # Null
    /\ LET started == MonitorStart(server.globalMemoryMonitor, server.timers)
           after == [server EXCEPT !.globalMemoryMonitor = started.monitor,
                                   !.timers = started.timers]
       IN  /\ server' = after
           /\ lastCall' = [op |-> "start", before |-> server,
                           after |-> after]
    /\ UNCHANGED <<catVars, fnVars>>

\* stop() on the monitor getGlobalMemoryMonitor() returns
MemoryMonitorStop ==
    /\ server.globalMemoryMonitor # Null
    /\ LET stopped == MonitorStop(server.globalMemoryMonitor, server.timers)
           after == [server EXCEPT !.globalMemoryMonitor = stopped.monitor,
                                   !.timers = stopped.timers]
       IN  /\ server' = after
           /\ lastCall' = [op |-> "stop", before |-> server,
                           after |-> after]
    /\ UNCHANGED <<catVars, fnVars>>

-----------------------------------------------------------------------------
(* Inputs                                                                  *)

Rec(code, l1, l2, l3, l4) ==
    [code |-> code, level1 |-> l1, level2 |-> l2, level3 |-> l3,
     level4 |-> l4]

\* A record of a shallow category: level3 and level4 are absent.
RecShallow(code, l1, l2) == [code |-> code, level1 |-> l1, level2 |-> l2]

\* Records around the queries "ab" and "c": every tier, every level, ties of
\* score, levels that are empty or absent, and two records that share a
\* code.
RecordPool ==
    { Rec(<<1>>, <<"A", "b">>, <<>>, <<>>, <<>>),
      Rec(<<2>>, <<"A", "b", "c">>, <<>>, <<>>, <<>>),
      RecShallow(<<1, 2>>, <<"c">>, <<"a", "b">>),
      Rec(<<2>>, <<"c", "a", "b">>, <<>>, <<"c">>, <<>>),
      Rec(<<2, 1>>, <<"a", "c", "b">>, <<>>, <<"A", "b", " ">>,
          <<"a", "b">>) }

RECURSIVE SeqsUpTo(_, _)
SeqsUpTo(S, n) ==
    IF n = 0 THEN {<<>>}
    ELSE LET shorter == SeqsUpTo(S, n - 1)
         IN  shorter \cup {Append(s, x) : s \in shorter, x \in S}

\* One record more than the default max_results, every one matching "ab",
\* listed against the order of the codes.
BigTaxonomy ==
    [i \in 1..(DefaultMaxResults + 1) |->
        LET n == DefaultMaxResults + 1 - i
        IN  Rec(<<(n \div 3) + 1, (n % 3) + 1>>,
                IF n % 2 = 0 THEN <<"a", "b">> ELSE <<"a", "b", "c">>,
                <<>>, <<>>, <<>>)]

Taxonomies == SeqsUpTo(RecordPool, MaxRecords) \cup {BigTaxonomy}

SearchQueries ==
    { <<"a", "b">>, <<" ", "A", "B">>, <<"c">>, <<"c", "c">>, <<>>,
      <<" ">> }

SearchMaxResults == {-1, 0, 1, 2}

\* The arguments of a call: query and max_results may each be left out.
ArgsOver(queries, maxResults) ==
    [query : queries, max_results : maxResults]
        \cup [query : queries] \cup [max_results : maxResults]

SearchArgs == ArgsOver(SearchQueries, SearchMaxResults)

-----------------------------------------------------------------------------
(* Specification of lookups over one dataset: any taxonomy in the bundled  *)
(* file, which stays as it is.                                             *)

InitFn == fnArgs = [kind |-> "none"] /\ fnOut = [kind |-> "none"]

InitSearch ==
    /\ bundled \in {ArrayJson(t) : t \in Taxonomies}
    /\ source = Missing
    /\ categoriesCache = NullCache
    /\ calls = <<Idle>>
    /\ lastLoad = NoLoad
    /\ resetOf = NoReset
    /\ server = NoServer
    /\ lastCall = NoCall
    /\ InitFn

NextSearch ==
    \E c \in DOMAIN calls :
        \/ \E args \in SearchArgs : FindCategoryCall(c, args)
        \/ FindCategoryResume(c)

SpecSearch == InitSearch /\ [][NextSearch]_vars

-----------------------------------------------------------------------------
(* Specification of the taxonomy store's life: the dataset files change    *)
(* under the running process, the cache is reset, lookups come and go.     *)

StoreTaxonomy1 ==
    <<Rec(<<1>>, <<"A", "b">>, <<>>, <<>>, <<>>),
      Rec(<<2>>, <<"A", "b", "c">>, <<>>, <<>>, <<>>)>>

StoreTaxonomy2 == <<Rec(<<1, 2>>, <<"c">>, <<"a", "b">>, <<>>, <<>>)>>

BundledContents == {Missing, Unparsable, ObjectJson, ArrayJson(StoreTaxonomy1)}

SourceContents == {Missing, Unparsable, ArrayJson(StoreTaxonomy2)}

StoreArgs ==
    { [query |-> <<"a", "b">>],
      [query |-> <<"c", "c">>, max_results |-> 1],
      [max_results |-> 1] }

Init ==
    /\ bundled \in BundledContents
    /\ source \in SourceContents
    /\ categoriesCache = NullCache
    /\ calls = [c \in 1..NumCalls |-> Idle]
    /\ lastLoad = NoLoad
    /\ resetOf = NoReset
    /\ server = NoServer
    /\ lastCall = NoCall
    /\ InitFn

Next ==
    \/ \E c \in DOMAIN calls :
        \/ \E args \in StoreArgs : FindCategoryCall(c, args)
        \/ FindCategoryResume(c)
    \/ ClearCategoriesCache
    \/ \E content \in BundledContents : WriteBundled(content)
    \/ \E content \in SourceContents : WriteSource(content)

Spec == Init /\ [][Next]_vars

-----------------------------------------------------------------------------
(* Specification of concurrent lookups: the dataset files stay as they     *)
(* are, several calls are between their load and their resumption, and the *)
(* cache is reset at any point.                                            *)

InitConcurrent ==
    /\ bundled \in BundledContents
    /\ source \in SourceContents
    /\ categoriesCache = NullCache
    /\ calls = [c \in 1..NumLookups |-> Idle]
    /\ lastLoad = NoLoad
    /\ resetOf = NoReset
    /\ server = NoServer
    /\ lastCall = NoCall
    /\ fnArgs = [kind |-> "none"]
    /\ fnOut = [kind |-> "none"]

NextConcurrent ==
    \/ \E c \in DOMAIN calls :
        \/ \E args \in StoreArgs : FindCategoryCall(c, args)
        \/ FindCategoryResume(c)
    \/ ClearCategoriesCache

SpecConcurrent == InitConcurrent /\ [][NextConcurrent]_vars

-----------------------------------------------------------------------------
(* Specification of the server's life: servers are created for the same or *)
(* another configuration and reset, lookups run meanwhile.                 *)

Configs ==
    { [NAVER_CLIENT_ID |-> "id1", NAVER_CLIENT_SECRET |-> "secret1"],
      [NAVER_CLIENT_ID |-> "id1", NAVER_CLIENT_SECRET |-> "secret2"],
      [NAVER_CLIENT_ID |-> "id2", NAVER_CLIENT_SECRET |-> "secret1"] }

InitServer ==
    /\ bundled = ArrayJson(StoreTaxonomy1)
    /\ source = Missing
    /\ categoriesCache = NullCache
    /\ calls = <<Idle>>
    /\ lastLoad = NoLoad
    /\ resetOf = NoReset
    /\ server = NoServer
    /\ lastCall = NoCall
    /\ fnArgs = [kind |-> "none"]
    /\ fnOut = [kind |-> "none"]

NextServer ==
    \/ \E config \in Configs : CreateNaverSearchServer(config)
    \/ ResetServerInstance
    \/ RunCacheClearCallback
    \/ FindCategoryCall(1, [query |-> <<"a", "b">>])
    \/ FindCategoryResume(1)

SpecServer == InitServer /\ [][NextServer]_vars

-----------------------------------------------------------------------------
(* Specification of the server under memory monitoring: servers are        *)
(* created and reset, the monitor ticks on any memory status, cleanups run *)
(* by themselves or by hand, handlers ask for the client and look up       *)
(* categories.                                                             *)

MemoryConfigs ==
    { [NAVER_CLIENT_ID |-> "id1", NAVER_CLIENT_SECRET |-> "secret1"],
      [NAVER_CLIENT_ID |-> "id1", NAVER_CLIENT_SECRET |-> "secret2"] }

\* One heap reading of each status.
StatusHeaps ==
    { 100 * BytesPerMB, 300 * BytesPerMB, 700 * BytesPerMB,
      1500 * BytesPerMB }

InitMemory ==
    /\ bundled = ArrayJson(StoreTaxonomy1)
    /\ source = Missing
    /\ categoriesCache = NullCache
    /\ calls = <<Idle>>
    /\ lastLoad = NoLoad
    /\ resetOf = NoReset
    /\ server = NoServer
    /\ lastCall = NoCall
    /\ fnArgs = [kind |-> "none"]
    /\ fnOut = [kind |-> "none"]

NextMemory ==
    \/ \E config \in MemoryConfigs : CreateNaverSearchServer(config)
    \/ ResetServerInstance
    \/ RunCacheClearCallback
    \/ FindCategoryCall(1, [query |-> <<"a", "b">>])
    \/ FindCategoryResume(1)
    \/ /\ server.clock < MaxServerTicks
       /\ \E heapUsed \in StatusHeaps : Tick(heapUsed, heapUsed)
    \/ PerformMemoryCleanup
    \/ CleanupResume

SpecMemory == InitMemory /\ [][NextMemory]_vars

-----------------------------------------------------------------------------
(* Specification of the monitor and the client singleton: monitoring is    *)
(* started and stopped through the global functions and on the monitor     *)
(* itself, servers are created and reset, the monitor ticks, handlers ask  *)
(* for the client and the client is destroyed.                             *)

\* The heap reading of every tick: above the warning threshold.
MonitorHeap == 300 * BytesPerMB

InitMonitor ==
    /\ bundled = ArrayJson(StoreTaxonomy1)
    /\ source = Missing
    /\ categoriesCache = NullCache
    /\ calls = <<Idle>>
    /\ lastLoad = NoLoad
    /\ resetOf = NoReset
    /\ server = NoServer
    /\ lastCall = NoCall
    /\ fnArgs = [kind |-> "none"]
    /\ fnOut = [kind |-> "none"]

NextMonitor ==
    \/ \E config \in MemoryConfigs : CreateNaverSearchServer(config)
    \/ ResetServerInstance
    \/ RunCacheClearCallback
    \/ StartGlobalMemoryMonitoring
    \/ StopGlobalMemoryMonitoring
    \/ MemoryMonitorStart
    \/ MemoryMonitorStop
    \/ server.clock < MaxMonitorTicks /\ Tick(MonitorHeap, MonitorHeap)
    \/ GetInstance
    \/ DestroyInstance

SpecMonitor == InitMonitor /\ [][NextMonitor]_vars

-----------------------------------------------------------------------------
(* Specification of checkMemoryHealth on its own: one heap reading, at,    *)
(* one byte under and one byte over a whole number of MB.                  *)

HeapMBs ==
    { 0, 1, 50, 100, 150, 199, 200, 201, 250, 300, 400, 499, 500, 501, 600,
      800, 1000, 1023, 1024, 1025, 1500, 2000 }

HeapSamples ==
    {mb * BytesPerMB + d : mb \in HeapMBs, d \in {-1, 0, 1}} \cap Nat

InitHealth ==
    /\ bundled = Missing
    /\ source = Missing
    /\ categoriesCache = NullCache
    /\ calls = <<Idle>>
    /\ lastLoad = NoLoad
    /\ resetOf = NoReset
    /\ server = NoServer
    /\ lastCall = NoCall
    /\ fnArgs \in [kind : {"heap"}, heapUsed : HeapSamples]
    /\ fnOut = [kind |-> "none"]

CheckMemoryHealth ==
    /\ fnArgs.kind = "heap"
    /\ fnOut = [kind |-> "none"]
    /\ fnOut' = [kind |-> "health",
                 status |-> checkMemoryHealth(fnArgs.heapUsed)]
    /\ UNCHANGED fnArgs

NextHealth == CheckMemoryHealth /\ UNCHANGED <<catVars, srvVars>>

SpecHealth == InitHealth /\ [][NextHealth]_vars

-----------------------------------------------------------------------------
(* The scoring functions on their own                                      *)

ScoreAlphabet == {"a", "b"}

RECURSIVE StringsUpTo(_, _)
StringsUpTo(alphabet, n) ==
    IF n = 0 THEN {<<>>}
    ELSE LET shorter == StringsUpTo(alphabet, n - 1)
         IN  shorter \cup {Append(s, c) : s \in shorter, c \in alphabet}

ScoreTexts == StringsUpTo(ScoreAlphabet, MaxStrLen) \ {<<>>}

ScoreQueries == StringsUpTo(ScoreAlphabet, MaxQueryLen)

NoArgs == [kind |-> "none"]

\* One level name and one normalized query against two level texts; the
\* category state stays as constructed.
InitScore ==
    /\ bundled = Missing
    /\ source = Missing
    /\ categoriesCache = NullCache
    /\ calls = <<Idle>>
    /\ lastLoad = NoLoad
    /\ resetOf = NoReset
    /\ server = NoServer
    /\ lastCall = NoCall
    /\ fnArgs \in [kind : {"levels"}, name : LevelNames,
                   searchQuery : ScoreQueries,
                   value1 : ScoreTexts, value2 : ScoreTexts]
    /\ fnOut = NoArgs

ScoreLevels ==
    /\ fnArgs.kind = "levels"
    /\ fnOut = NoArgs
    /\ fnOut' = [kind |-> "levels",
                 match1 |-> LevelMatch(fnArgs.name, fnArgs.value1,
                                       fnArgs.searchQuery),
                 match2 |-> LevelMatch(fnArgs.name, fnArgs.value2,
                                       fnArgs.searchQuery)]
    /\ UNCHANGED fnArgs

-----------------------------------------------------------------------------
(* Specification of the scoring functions on their own                     *)

NextScore == ScoreLevels /\ UNCHANGED <<catVars, srvVars>>

SpecScore == InitScore /\ [][NextScore]_vars

-----------------------------------------------------------------------------
(* Specification of the similarity scorer on its own: levenshteinDistance  *)
(* and calculateSimilarity on two strings.                                 *)

Kitten == <<"k", "i", "t", "t", "e", "n">>

Sitting == <<"s", "i", "t", "t", "i", "n", "g">>

\* Every pair of strings of up to MaxStrLen characters, and the pair of the
\* two words in both orders.
SimilarityPairs ==
    (StringsUpTo(ScoreAlphabet, MaxStrLen)
        \X StringsUpTo(ScoreAlphabet, MaxStrLen))
        \cup {<<Kitten, Sitting>>, <<Sitting, Kitten>>}

InitSimilarity ==
    /\ bundled = Missing
    /\ source = Missing
    /\ categoriesCache = NullCache
    /\ calls = <<Idle>>
    /\ lastLoad = NoLoad
    /\ resetOf = NoReset
    /\ server = NoServer
    /\ lastCall = NoCall
    /\ fnArgs \in {[kind |-> "strings", str1 |-> pair[1], str2 |-> pair[2]] :
                      pair \in SimilarityPairs}
    /\ fnOut = NoArgs

ScoreStrings ==
    /\ fnArgs.kind = "strings"
    /\ fnOut = NoArgs
    /\ fnOut' = [kind |-> "strings",
                 distance |-> levenshteinDistance(fnArgs.str1, fnArgs.str2),
                 similarity |-> calculateSimilarity(fnArgs.str1,
                                                    fnArgs.str2)]
    /\ UNCHANGED fnArgs

NextSimilarity == ScoreStrings /\ UNCHANGED <<catVars, srvVars>>

SpecSimilarity == InitSimilarity /\ [][NextSimilarity]_vars

-----------------------------------------------------------------------------
(* Specification of the matcher on one record: the score of each level and *)
(* the best of them.                                                       *)

\* Level texts around the queries "ab" and "c": other letter case, longer
\* texts that start with or contain the query, a near miss, and whitespace
\* before or after the text.
LevelTexts ==
    { <<"A", "b">>, <<"A", "b", "c">>, <<"c", "A", "B">>, <<"a", "c", "b">>,
      <<"b", "b", "c">>, <<"A", "b", " ">>, <<" ", "a", "b">>, <<"c">> }

\* The record with the text at level k and the empty string at the other
\* levels.
OneLevelRecord(k, text) ==
    [field \in {"code", "level1", "level2", "level3", "level4"} |->
        IF field = "code" THEN <<k>>
        ELSE IF field = LevelField(k) THEN text
        ELSE <<>>]

\* A record for the query "acb": level1 and level3 are one edit away from it
\* over four and three characters, level2 is two edits away over five
\* characters (similarity 3/5), level4 has a space after a near miss.
FuzzyRecord ==
    Rec(<<3>>, <<"a", "c", "a", "b">>, <<"a", "b", "c", "a", "b">>,
        <<"A", "B", "B">>, <<"a", "b", " ">>)

MatcherRecords ==
    RecordPool \cup {FuzzyRecord}
        \cup {OneLevelRecord(k, text) : k \in 1..4, text \in LevelTexts}

MatcherQueries == SearchQueries \cup {<<"a", "c", "b">>, <<"A", "C", "B", " ">>}

InitMatcher ==
    /\ bundled = Missing
    /\ source = Missing
    /\ categoriesCache = NullCache
    /\ calls = <<Idle>>
    /\ lastLoad = NoLoad
    /\ resetOf = NoReset
    /\ server = NoServer
    /\ lastCall = NoCall
    /\ fnArgs \in [kind : {"record"}, category : MatcherRecords,
                   query : MatcherQueries]
    /\ fnOut = NoArgs

\* One pass of the loop over the records: the query as normalized at the
\* top of smartCategorySearch, the score of every level, and the best one.
ScoreRecord ==
    /\ fnArgs.kind = "record"
    /\ fnOut = NoArgs
    /\ LET searchQuery == Trim(ToLowerCase(fnArgs.query))
       IN  fnOut' = [kind |-> "record",
                     searchQuery |-> searchQuery,
                     levels |-> [k \in 1..4 |->
                         IF LevelValue(fnArgs.category, k) = <<>>
                         THEN NoMatch
                         ELSE LevelMatch(k, LevelValue(fnArgs.category, k),
                                         searchQuery)],
                     best |-> BestMatch(fnArgs.category, searchQuery)]
    /\ UNCHANGED fnArgs

NextMatcher == ScoreRecord /\ UNCHANGED <<catVars, srvVars>>

SpecMatcher == InitMatcher /\ [][NextMatcher]_vars

-----------------------------------------------------------------------------
(* C3                                                                      *)

TierRank(match) ==
    IF match.score = 0 THEN 0
    ELSE CASE match.matchType.tier = "exact" -> 4
           [] match.matchType.tier = "prefix" -> 3
           [] match.matchType.tier = "contains" -> 2
           [] match.matchType.tier = "fuzzy" -> 1

\* C3: for one level name and one query, a level text matched in a higher
\* tier (exact over prefix over substring over fuzzy) scores strictly more
\* than a level text matched in a lower tier.
C3_TierOrder ==
    (/\ fnOut.kind = "levels"
     /\ TierRank(fnOut.match2) >= 1
     /\ TierRank(fnOut.match1) > TierRank(fnOut.match2))
        => fnOut.match1.score > fnOut.match2.score

\* A substring match scored beside a fuzzy match of the same level.
C3_Witness ==
    /\ fnOut.kind = "levels"
    /\ TierRank(fnOut.match1) = 2
    /\ TierRank(fnOut.match2) = 1

-----------------------------------------------------------------------------
(* Properties of a lookup                                                  *)

Done == {c \in DOMAIN calls : calls[c].pc = "done"}

\* The call was given a string query and the load handed it an array.
WellFormed(c) ==
    /\ "query" \in DOMAIN calls[c].args
    /\ calls[c].categories.kind = "array"

Records(c) == calls[c].categories.records

NormalizedQuery(c) == Trim(ToLowerCase(calls[c].args.query))

\* The records of the call's taxonomy with at least one matching level.
Matching(c) ==
    {i \in 1..Len(Records(c)) :
        BestMatch(Records(c)[i], NormalizedQuery(c)).score > 0}

HasCategories(c) == "categories" \in DOMAIN calls[c].response

IsNoResults(c) == DOMAIN calls[c].response = {"message", "suggestions"}

IsRejected(c) == "error" \in DOMAIN calls[c].response

UniqueCodes(records) ==
    \A i, j \in 1..Len(records) :
        records[i].code = records[j].code => i = j

RecordOrders(n) ==
    {p \in [1..n -> 1..n] : \A i, j \in 1..n : p[i] = p[j] => i = j}

\* Every order of a taxonomy of up to MaxRecords records; of a longer one,
\* its reversal and its rotation by one.
Rearranged(records) ==
    LET n == Len(records)
    IN  IF n <= MaxRecords
        THEN {[i \in 1..n |-> records[p[i]]] : p \in RecordOrders(n)}
        ELSE {[i \in 1..n |-> records[n + 1 - i]],
              [i \in 1..n |-> records[(i % n) + 1]]}

\* a before b in the order of the ranking: higher score, or the same score
\* and the smaller code
RankedBefore(a, b) ==
    \/ a.score > b.score
    \/ a.score = b.score /\ LocaleCompare(a.code, b.code) < 0

\* C1: over a taxonomy with unique codes the returned categories are in
\* descending score and, at equal score, ascending code, and the response is
\* the same for every order of the taxonomy's records.
C1_RankingOrder ==
    \A c \in Done :
        (WellFormed(c) /\ UniqueCodes(Records(c))) =>
            /\ HasCategories(c) =>
                  \A i, j \in 1..Len(calls[c].response.categories) :
                      i < j => RankedBefore(calls[c].response.categories[i],
                                            calls[c].response.categories[j])
            /\ \A t \in Rearranged(Records(c)) :
                  HandlerResponse(calls[c].args, ArrayJson(t))
                      = calls[c].response

\* Two records tie on the score and the one listed first has the larger code.
C1_Witness ==
    \E c \in Done :
        /\ WellFormed(c) /\ UniqueCodes(Records(c)) /\ HasCategories(c)
        /\ \E i, j \in Matching(c) :
              /\ i < j
              /\ BestMatch(Records(c)[i], NormalizedQuery(c)).score
                    = BestMatch(Records(c)[j], NormalizedQuery(c)).score
              /\ LocaleCompare(Records(c)[i].code, Records(c)[j].code) > 0
        /\ Len(calls[c].response.categories) >= 2

\* The ranking of every matching record: the search with no truncation.
FullRanking(c) ==
    LET search == smartCategorySearch(calls[c].categories,
                                      QueryOf(calls[c].args),
                                      Len(Records(c)))
    IN  [i \in 1..Len(search.results) |-> FormatCategory(search.results[i])]

\* The max_results in force: the one given, 10 when it is left out.
Requested(c) ==
    IF "max_results" \in DOMAIN calls[c].args
    THEN calls[c].args.max_results
    ELSE 10

Returned(c) ==
    IF HasCategories(c) THEN calls[c].response.categories ELSE <<>>

\* C2: with positive max_results k (10 when left out) and n matching
\* records, the call returns min(k, n) categories, the first min(k, n) of
\* the full ranking.
C2_Truncation ==
    \A c \in Done :
        (WellFormed(c) /\ Requested(c) > 0) =>
            LET m == Min(Requested(c), Cardinality(Matching(c)))
            IN  /\ Len(Returned(c)) = m
                /\ Returned(c) = SubSeq(FullRanking(c), 1, m)
                /\ HasCategories(c) => calls[c].response.total_found = m

\* max_results = 1 over three matching records returns the top-ranked one.
C2_Witness ==
    \E c \in Done :
        /\ WellFormed(c)
        /\ "max_results" \in DOMAIN calls[c].args
        /\ calls[c].args.max_results = 1
        /\ Cardinality(Matching(c)) = 3
        /\ Len(Returned(c)) = 1
        /\ Returned(c)[1] = FullRanking(c)[1]

\* The positions of a record among the returned categories.
PositionsOf(c, record) ==
    {p \in 1..Len(Returned(c)) :
        /\ Returned(c)[p].code = record.code
        /\ Returned(c)[p].levels = [k \in 1..4 |-> LevelValue(record, k)]}

Level1Exact(c, record) ==
    /\ LevelValue(record, 1) # <<>>
    /\ ToLowerCase(LevelValue(record, 1)) = NormalizedQuery(c)

\* The record's best match is a prefix match on level1 or an exact match on
\* level2.
BestIsSecondRank(c, record) ==
    BestMatch(record, NormalizedQuery(c)).matchType
        \in {[tier |-> "prefix", level |-> 1], [tier |-> "exact", level |-> 2]}

C5_NonPositiveRejected ==
    \A c \in Done :
        (/\ WellFormed(c)
         /\ NormalizedQuery(c) # <<>>
         /\ Matching(c) # {}
         /\ "max_results" \in DOMAIN calls[c].args
         /\ calls[c].args.max_results <= 0) => IsRejected(c)

\* C6: a call whose query is empty or only whitespace is rejected or
\* matches nothing: it returns no category.
C6_EmptyQueryMatchesNothing ==
    \A c \in Done :
        (WellFormed(c) /\ NormalizedQuery(c) = <<>>) => ~HasCategories(c)

\* C7: when no record matches the query the call ends without an error, in
\* the no-results shape: a message and a non-empty list of suggestions, no
\* categories and no total_found.
C7_NoMatchShape ==
    \A c \in Done :
        (WellFormed(c) /\ Matching(c) = {}) =>
            /\ ~IsRejected(c)
            /\ DOMAIN calls[c].response = {"message", "suggestions"}
            /\ Len(calls[c].response.suggestions) > 0

\* A query that matches none of the records of a taxonomy that has some.
C7_Witness ==
    \E c \in Done :
        /\ WellFormed(c)
        /\ Records(c) # <<>>
        /\ NormalizedQuery(c) # <<>>
        /\ Matching(c) = {}
        /\ IsNoResults(c)

-----------------------------------------------------------------------------
(* Properties of the taxonomy store                                        *)

\* A load happens in this step: a call goes through getCategoriesData.
LoadStep ==
    \E c \in DOMAIN calls : calls[c].pc # "loaded" /\ calls'[c].pc = "loaded"

\* The load of the call found no dataset file, or a file whose content is
\* not an array of records (text that does not parse, or other JSON).
LoadedFromBadDataset(c) ==
    \/ calls[c].io \in {"not found", "parse error"}
    \/ calls[c].io \in {"bundled", "source"}
          /\ calls[c].categories.kind # "array"

\* C8: a load that finds no dataset file or malformed content returns an
\* empty sequence, and the call it serves returns the no-results response.
C8_BadDatasetDegrades ==
    \A c \in DOMAIN calls :
        (calls[c].pc # "idle" /\ LoadedFromBadDataset(c)) =>
            /\ calls[c].categories = EmptyArray
            /\ (calls[c].pc = "done" /\ "query" \in DOMAIN calls[c].args)
                  => IsNoResults(c)

\* C9: a load that follows a load which got a value, with no cache reset in
\* between, reads no file and returns that same value, whatever the dataset
\* files hold by then.
C9_WarmLoadFromCache ==
    [][(LoadStep /\ Before.what = "loaded") =>
          /\ lastLoad'.io = "cache"
          /\ lastLoad'.result = lastLoad.result
          /\ categoriesCache' = categoriesCache
          /\ \A c \in DOMAIN calls :
                (calls[c].pc # "loaded" /\ calls'[c].pc = "loaded")
                    => calls'[c].categories = lastLoad.result]_vars

\* A load answered from the cache after both dataset files have gone.
C9_Witness ==
    /\ lastLoad.io = "cache"
    /\ lastLoad.before.what = "loaded"
    /\ lastLoad.result.kind = "array"
    /\ bundled = Missing /\ source = Missing
    /\ \E c \in DOMAIN calls :
          calls[c].pc = "loaded" /\ calls[c].categories = lastLoad.result

\* What the dataset holds: the parsed content of the bundled file if that
\* file exists, else of the source file; nothing when neither exists or the
\* text does not parse.
DatasetNow ==
    LET file == IF bundled # Missing THEN bundled ELSE source
    IN  IF file.kind \in {"missing", "unparsable"} THEN EmptyArray ELSE file

\* C10: the first load after clearCategoriesCache reads the dataset again
\* and returns what the dataset holds at that time.
C10_LoadAfterResetRereads ==
    [][(LoadStep /\ Before.what = "reset") =>
          /\ lastLoad'.io # "cache"
          /\ lastLoad'.result = DatasetNow
          /\ \A c \in DOMAIN calls :
                (calls[c].pc # "loaded" /\ calls'[c].pc = "loaded")
                    => calls'[c].categories = DatasetNow]_vars

\* A load after a reset that returned other records than the reset dropped.
C10_Witness ==
    /\ lastLoad.io \in {"bundled", "source"}
    /\ lastLoad.before.what = "reset"
    /\ lastLoad.before.cached.kind = "array"
    /\ lastLoad.result.kind = "array"
    /\ lastLoad.result # lastLoad.before.cached

-----------------------------------------------------------------------------
(* Properties of concurrent lookups                                        *)

\* What a call with these arguments returns when it is the only operation of
\* a fresh process over the dataset: a cold load, then the search.
AloneResponse(args) ==
    HandlerResponse(args,
                    getCategoriesData(NullCache, bundled, source).result)

\* C11: over an unchanged dataset, whatever calls, cold loads and cache
\* resets are interleaved with it, a call returns the response it returns
\* when run alone on that dataset.
C11_InterleavingInvisible ==
    \A c \in Done : calls[c].response = AloneResponse(calls[c].args)

\* Call 1 has returned its categories; while it was between its load and
\* its resumption the cache was reset and another call loaded the dataset
\* from the file again.
C11_Witness ==
    /\ calls[1].pc = "done"
    /\ HasCategories(1)
    /\ lastLoad.io \in {"bundled", "source"}
    /\ lastLoad.before.what = "reset"
    /\ lastLoad.inFlight = {1}

-----------------------------------------------------------------------------
(* Properties of the cached taxonomy                                       *)

\* What the load put into the cache: the parsed content of the dataset.
LoadedTaxonomy == getCategoriesData(NullCache, bundled, source).result

-----------------------------------------------------------------------------
(* Properties of the similarity scorer                                     *)

Chars(s) == {s[i] : i \in 1..Len(s)}

\* The strings one unit-cost edit away from s: a character deleted, a
\* character replaced, or a character inserted (up to maxLen characters).
OneEditFrom(s, alphabet, maxLen) ==
    {SubSeq(s, 1, i - 1) \o SubSeq(s, i + 1, Len(s)) : i \in 1..Len(s)}
        \cup {[s EXCEPT ![i] = ch] : i \in 1..Len(s), ch \in alphabet}
        \cup (IF Len(s) < maxLen
              THEN {SubSeq(s, 1, i) \o <<ch>> \o SubSeq(s, i + 1, Len(s)) :
                        i \in 0..Len(s), ch \in alphabet}
              ELSE {})

\* The strings at most k edits away from a string of S.
RECURSIVE WithinEdits(_, _, _, _)
WithinEdits(S, k, alphabet, maxLen) ==
    IF k = 0 THEN S
    ELSE WithinEdits(S \cup UNION {OneEditFrom(s, alphabet, maxLen) :
                                       s \in S},
                     k - 1, alphabet, maxLen)

\* b is at most k edits away from a.  Every edit has an inverse edit, so
\* this is the case when some string is within half of k of each; the
\* strings in between use the characters of a and b and are not longer than
\* the longer of the two.
Reaches(a, b, k) ==
    LET alphabet == Chars(a) \cup Chars(b)
        maxLen == Max(Len(a), Len(b))
    IN  WithinEdits({a}, (k + 1) \div 2, alphabet, maxLen)
            \cap WithinEdits({b}, k \div 2, alphabet, maxLen) # {}

RECURSIVE LeastEdits(_, _, _)
LeastEdits(a, b, k) ==
    IF Reaches(a, b, k) THEN k ELSE LeastEdits(a, b, k + 1)

\* The minimum number of insertions, deletions and substitutions that turn
\* a into b.
EditDistance(a, b) == LeastEdits(a, b, 0)

\* C13: levenshteinDistance(a, b) is the minimum number of unit-cost
\* insertions, deletions and substitutions turning a into b; it is 0 for
\* two empty strings and 3 for kitten and sitting.
C13_DistanceIsEditDistance ==
    fnOut.kind = "strings" =>
        /\ fnOut.distance = EditDistance(fnArgs.str1, fnArgs.str2)
        /\ (fnArgs.str1 = <<>> /\ fnArgs.str2 = <<>>) => fnOut.distance = 0
        /\ (fnArgs.str1 = Kitten /\ fnArgs.str2 = Sitting)
              => fnOut.distance = 3

\* The distance of kitten and sitting has been computed.
C13_Witness ==
    /\ fnOut.kind = "strings"
    /\ fnArgs.str1 = Kitten /\ fnArgs.str2 = Sitting
    /\ fnOut.distance = 3

\* C14: similarity(a, b) is (max_len - levenshteinDistance(a, b)) / max_len
\* with max_len the length of the longer string, and lies in [0, 1]: the
\* distance is between 0 and max_len; it is 1 when both strings are empty.
C14_SimilarityFormula ==
    fnOut.kind = "strings" =>
        LET maxLen == Max(Len(fnArgs.str1), Len(fnArgs.str2))
            distance == levenshteinDistance(fnArgs.str1, fnArgs.str2)
            similarity == fnOut.similarity
        IN  /\ similarity.den > 0
            /\ 0 <= similarity.num /\ similarity.num <= similarity.den
            /\ 0 <= distance /\ distance <= maxLen
            /\ IF maxLen = 0
               THEN similarity.num = similarity.den
               ELSE similarity.num * maxLen
                        = (maxLen - distance) * similarity.den

\* A similarity strictly between 0 and 1 of strings of different lengths,
\* the first one the shorter.
C14_Witness ==
    /\ fnOut.kind = "strings"
    /\ Len(fnArgs.str1) < Len(fnArgs.str2)
    /\ 0 < fnOut.similarity.num
    /\ fnOut.similarity.num < fnOut.similarity.den

\* C15: similarity(s, s) is exactly 1 for every string s.
C15_SelfSimilarityIsOne ==
    (fnOut.kind = "strings" /\ fnArgs.str1 = fnArgs.str2)
        => fnOut.similarity.num = fnOut.similarity.den

\* A string of several different characters scored against itself.
C15_Witness ==
    /\ fnOut.kind = "strings"
    /\ fnArgs.str1 = fnArgs.str2
    /\ Cardinality(Chars(fnArgs.str1)) >= 2
    /\ fnOut.similarity.num = fnOut.similarity.den

\* C16: similarity(a, b) = similarity(b, a) for all strings a and b, of
\* equal length or not.
C16_SimilaritySymmetric ==
    fnOut.kind = "strings" =>
        LET forth == fnOut.similarity
            back == calculateSimilarity(fnArgs.str2, fnArgs.str1)
        IN  forth.num * back.den = back.num * forth.den

\* Two different strings of equal length with a similarity between 0 and 1.
C16_Witness ==
    /\ fnOut.kind = "strings"
    /\ Len(fnArgs.str1) = Len(fnArgs.str2)
    /\ fnArgs.str1 # fnArgs.str2
    /\ 0 < fnOut.similarity.num
    /\ fnOut.similarity.num < fnOut.similarity.den

-----------------------------------------------------------------------------
(* Properties of the result formatter                                      *)

Present(level) == level # <<>>

\* The text of level k of a record as the output is to show it: the empty
\* string for a level the record does not have.
LevelText(record, k) ==
    CASE k = 1 -> IF "level1" \in DOMAIN record THEN record.level1 ELSE <<>>
      [] k = 2 -> IF "level2" \in DOMAIN record THEN record.level2 ELSE <<>>
      [] k = 3 -> IF "level3" \in DOMAIN record THEN record.level3 ELSE <<>>
      [] k = 4 -> IF "level4" \in DOMAIN record THEN record.level4 ELSE <<>>

\* The entry is made from the record: its code, score and match type, its
\* four level fields and the breadcrumb of its non-empty levels in order.
EntryOf(entry, record, searchQuery) ==
    /\ DOMAIN entry = {"code", "category", "match_type", "score", "levels"}
    /\ entry.code = record.code
    /\ entry.score = BestMatch(record, searchQuery).score
    /\ entry.match_type = BestMatch(record, searchQuery).matchType
    /\ entry.levels = <<LevelText(record, 1), LevelText(record, 2),
                        LevelText(record, 3), LevelText(record, 4)>>
    /\ entry.category = SelectSeq(entry.levels, Present)

\* C17: a response with categories has total_found equal to the number of
\* entries, lists them in ranked order, and every entry carries the code,
\* score and match type of a matching record, its four level fields (the
\* empty string for an absent level) and the breadcrumb of exactly its
\* non-empty levels in level1..level4 order.
C17_ResponseFormat ==
    \A c \in Done :
        HasCategories(c) =>
            LET entries == calls[c].response.categories
            IN  /\ DOMAIN calls[c].response
                      = {"message", "total_found", "categories", "next_steps"}
                /\ Len(entries) > 0
                /\ calls[c].response.total_found = Len(entries)
                /\ calls[c].response.message.count = Len(entries)
                /\ \A i, j \in 1..Len(entries) :
                      i < j => ~RankedBefore(entries[j], entries[i])
                /\ \A i \in 1..Len(entries) :
                      \E m \in Matching(c) :
                          EntryOf(entries[i], Records(c)[m],
                                  NormalizedQuery(c))

\* Two entries: one of a record with level3 and level4 absent, one of a
\* record with an empty level2 between level1 and level3.
C17_Witness ==
    \E c \in Done :
        /\ HasCategories(c)
        /\ Len(calls[c].response.categories) = 2
        /\ \E m \in Matching(c) :
              /\ "level3" \notin DOMAIN Records(c)[m]
              /\ \E i \in 1..2 :
                    /\ EntryOf(calls[c].response.categories[i],
                               Records(c)[m], NormalizedQuery(c))
                    /\ Len(calls[c].response.categories[i].category) = 2
        /\ \E m \in Matching(c) :
              /\ "level2" \in DOMAIN Records(c)[m]
              /\ Records(c)[m].level2 = <<>>
              /\ Records(c)[m].level3 # <<>>
              /\ \E i \in 1..2 :
                    EntryOf(calls[c].response.categories[i],
                            Records(c)[m], NormalizedQuery(c))

-----------------------------------------------------------------------------
(* Properties of the matcher                                               *)

\* Lower-casing and trimming of surrounding whitespace
Normalized(text) == Trim(ToLowerCase(text))

ClaimedBonus(k) ==
    CASE k = 1 -> 50
      [] k = 2 -> 30
      [] k = 3 -> 20
      [] k = 4 -> 10

\* C20: a populated level scores 100 + bonus when its normalized text equals
\* the normalized query, else 80 + bonus when it starts with the query, else
\* 60 + bonus when it contains the query, with bonus 50, 30, 20, 10 for
\* level1..level4; a level that is empty or absent contributes no score.
C20_LevelScores ==
    fnOut.kind = "record" =>
        \A k \in 1..4 :
            LET text == LevelText(fnArgs.category, k)
                query == Normalized(fnArgs.query)
                score == fnOut.levels[k].score
            IN  IF text = <<>> THEN score = 0
                ELSE IF Normalized(text) = query
                THEN score = 100 + ClaimedBonus(k)
                ELSE IF StartsWith(Normalized(text), query)
                THEN score = 80 + ClaimedBonus(k)
                ELSE IF Includes(Normalized(text), query)
                THEN score = 60 + ClaimedBonus(k)
                ELSE TRUE

-----------------------------------------------------------------------------
(* Properties of the server instance                                       *)

\* The latest call was createNaverSearchServer with an instance cached and
\* the client id and secret of that instance.
ReusingCall ==
    /\ lastCall.op = "create"
    /\ lastCall.before.globalServerInstance # Null
    /\ ~isConfigChanged(lastCall.before.currentConfig, lastCall.config)

\* C18: createNaverSearchServer with an instance cached and an unchanged
\* configuration creates no server, registers no tool, leaves the client
\* and the memory monitoring as they are, and returns the object that the
\* call which created the instance returned.
C18_ReuseReturnsSameServer ==
    ReusingCall =>
        /\ lastCall.after.servers = lastCall.before.servers
        /\ lastCall.after.globalServerInstance
              = lastCall.before.globalServerInstance
        /\ lastCall.after.instance = lastCall.before.instance
        /\ lastCall.after.globalMemoryMonitor
              = lastCall.before.globalMemoryMonitor
        /\ lastCall.after.timers = lastCall.before.timers
        /\ lastCall.returned
              = lastCall.before.servers[
                    lastCall.before.globalServerInstance.id].returned

\* The state in which resetServerInstance, run with an instance cached,
\* returned (on its own, or inside createNaverSearchServer), and the
\* category cache at that moment.
ResetReturned ==
    \/ lastCall.op = "reset" /\ lastCall.before.globalServerInstance # Null
    \/ lastCall.op = "create" /\ lastCall.changed

StateAtResetReturn ==
    IF lastCall.op = "reset" THEN lastCall.after ELSE lastCall.cleaned

\* C19: when resetServerInstance, called with an instance cached, returns,
\* memory monitoring is stopped, the client singleton destroyed, the
\* category cache cleared and the cached instance and config are none;
\* createNaverSearchServer after a configuration change goes on from there.
C19_ResetCleansEverything ==
    ResetReturned =>
        /\ StateAtResetReturn.globalMemoryMonitor = Null
        /\ StateAtResetReturn.timers = {}
        /\ StateAtResetReturn.instance = Null
        /\ lastCall.cache = NullCache
        /\ StateAtResetReturn.globalServerInstance = Null
        /\ StateAtResetReturn.currentConfig = Null

-----------------------------------------------------------------------------
(* Properties of the fuzzy tier                                            *)

\* The level text as the matcher compares it (`levelText`).
ComparedText(category, k) == ToLowerCase(LevelText(category, k))

\* The level is populated and its compared text neither equals, starts with
\* nor contains the normalized query.
FuzzyCase(category, k, query) ==
    /\ LevelText(category, k) # <<>>
    /\ ComparedText(category, k) # query
    /\ ~StartsWith(ComparedText(category, k), query)
    /\ ~Includes(ComparedText(category, k), query)

\* floor(40 * num / den): the integer f with f <= 40 * num / den < f + 1
FloorOfForty(similarity) ==
    CHOOSE f \in 0..40 :
        /\ f * similarity.den <= 40 * similarity.num
        /\ 40 * similarity.num < (f + 1) * similarity.den

\* C21: a populated level that is neither an exact, prefix nor substring
\* match scores floor(similarity * 40) + bonus, as a fuzzy match, when the
\* similarity of query and level text is strictly greater than 0.6, and
\* nothing when it is 0.6 or less; a fuzzy score lies between 24 + bonus and
\* 39 + bonus.
C21_FuzzyScore ==
    fnOut.kind = "record" =>
        \A k \in 1..4 :
            LET query == Normalized(fnArgs.query)
                similarity ==
                    calculateSimilarity(query, ComparedText(fnArgs.category, k))
                match == fnOut.levels[k]
            IN  /\ FuzzyCase(fnArgs.category, k, query) =>
                      IF 10 * similarity.num > 6 * similarity.den
                      THEN /\ match.score
                                = FloorOfForty(similarity) + ClaimedBonus(k)
                           /\ match.matchType = [tier |-> "fuzzy", level |-> k]
                      ELSE match = NoMatch
                /\ (match.score > 0 /\ match.matchType.tier = "fuzzy") =>
                      /\ FuzzyCase(fnArgs.category, k, query)
                      /\ match.score >= 24 + ClaimedBonus(k)
                      /\ match.score <= 39 + ClaimedBonus(k)

\* The query "acb" scored against the record whose level1 is at similarity
\* 3/4 (30 + 50), whose level2 is at similarity 3/5 exactly (no match) and
\* whose level3 is at similarity 2/3 (26 + 20).
C21_Witness ==
    /\ fnOut.kind = "record"
    /\ fnArgs.category = FuzzyRecord
    /\ fnOut.searchQuery = <<"a", "c", "b">>
    /\ FuzzyCase(FuzzyRecord, 1, fnOut.searchQuery)
    /\ fnOut.levels[1].score = 80
    /\ fnOut.levels[1].matchType.tier = "fuzzy"
    /\ FuzzyCase(FuzzyRecord, 2, fnOut.searchQuery)
    /\ calculateSimilarity(fnOut.searchQuery, ComparedText(FuzzyRecord, 2))
          = [num |-> 3, den |-> 5]
    /\ fnOut.levels[2] = NoMatch
    /\ fnOut.levels[3].score = 46

-----------------------------------------------------------------------------
(* Properties of the candidates                                            *)

\* The score and match type of each of the four levels of a record; a level
\* that is empty or absent produces no score.
LevelScores(record, query) ==
    [k \in 1..4 |->
        IF LevelText(record, k) = <<>> THEN NoMatch
        ELSE LevelMatch(k, LevelText(record, k), query)]

Scored(record, query) == \E k \in 1..4 : LevelScores(record, query)[k].score > 0

\* The positions of the taxonomy that hold the record.
HeldAt(c, record) ==
    {m \in 1..Len(Records(c)) :
        /\ Records(c)[m].code = record.code
        /\ \A k \in 1..4 : LevelText(Records(c)[m], k) = LevelText(record, k)}

\* The call returned every candidate: max_results is not below the number
\* of records.
Untruncated(c) == WellFormed(c) /\ Requested(c) >= Len(Records(c))

-----------------------------------------------------------------------------
(* Properties of the normalization                                         *)

\* C23: a populated level whose text, lower-cased and trimmed, equals the
\* lower-cased and trimmed query is an exact match of that level: level text
\* and query go through the same normalization before they are compared.
C23_SameNormalization ==
    fnOut.kind = "record" =>
        \A k \in 1..4 :
            (/\ LevelText(fnArgs.category, k) # <<>>
             /\ Normalized(LevelText(fnArgs.category, k))
                   = Normalized(fnArgs.query))
                => fnOut.levels[k]
                      = [score |-> 100 + ClaimedBonus(k),
                         matchType |-> [tier |-> "exact", level |-> k]]

-----------------------------------------------------------------------------
(* Properties of a failed load                                             *)

FailedLoad == {"parse error", "not found"}

\* C26: a load that fails (dataset missing or unparsable) leaves the cache
\* unset, and the cache stays unset until the next load; the next load
\* reads the dataset again, with one read of the file and no retry, and
\* returns and caches what the dataset holds then, its records once it
\* parses.
C26_FailedLoadNotCached ==
    [][/\ lastLoad'.io \in FailedLoad => categoriesCache' = NullCache
       /\ (LoadStep /\ Before.what = "failed") =>
             /\ lastLoad'.io # "cache"
             /\ lastLoad'.reads
                   = IF bundled # Missing THEN <<"bundled">>
                     ELSE IF source # Missing THEN <<"source">>
                     ELSE <<>>
             /\ lastLoad'.result = DatasetNow
             /\ \A c \in DOMAIN calls :
                   (calls[c].pc # "loaded" /\ calls'[c].pc = "loaded")
                       => calls'[c].categories = DatasetNow
             /\ lastLoad'.io \notin FailedLoad
                   => categoriesCache' = DatasetNow]_vars

\* A load failed on an unparsable bundled file, the file was then replaced
\* by one that parses, and the next load read it and returned its records.
C26_Witness ==
    /\ lastLoad.io = "bundled"
    /\ lastLoad.before.what = "failed"
    /\ lastLoad.reads = <<"bundled">>
    /\ lastLoad.result.kind = "array"
    /\ lastLoad.result.records # <<>>
    /\ categoriesCache = lastLoad.result

-----------------------------------------------------------------------------
(* Properties of the client singleton under memory cleanup                 *)

\* The credentials createNaverSearchServer hands to the client.
CredentialsOf(config) ==
    [clientId |-> config.NAVER_CLIENT_ID,
     clientSecret |-> config.NAVER_CLIENT_SECRET]

\* C24: whenever a server instance is cached, the client that getInstance
\* returns holds the credentials of that server, and its getHeaders does
\* not throw "NaverApiCoreClient is not initialized.".
C24_CachedServerHasClient ==
    server.globalServerInstance # Null =>
        LET client == getInstance(server).instance
        IN  /\ client.config = CredentialsOf(server.currentConfig)
            /\ ~getHeaders(client).threw

-----------------------------------------------------------------------------
(* Properties of the monitoring timer                                      *)

\* At most one timer is set and it is the one of the global monitor; a
\* start, on a monitor that was running too, leaves exactly the timer it
\* set; after stopGlobalMemoryMonitoring there is no monitor and no timer.
OneTimer(s, call) ==
    /\ Cardinality(s.timers) <= 1
    /\ s.timers # {} =>
          /\ s.globalMemoryMonitor # Null
          /\ s.timers = {s.globalMemoryMonitor.intervalId}
    /\ call.op \in {"start", "startGlobalMemoryMonitoring"} =>
          /\ call.after.globalMemoryMonitor.intervalId # Null
          /\ call.after.timers = {call.after.globalMemoryMonitor.intervalId}
    /\ call.op = "stopGlobalMemoryMonitoring" =>
          /\ call.after.globalMemoryMonitor = Null
          /\ call.after.timers = {}

-----------------------------------------------------------------------------
(* Properties of the monitor's tick                                        *)

-----------------------------------------------------------------------------
(* Properties of the memory history                                        *)

\* The history of the global monitor, empty when there is none.
History(s) ==
    IF s.globalMemoryMonitor = Null THEN <<>>
    ELSE s.globalMemoryMonitor.memoryHistory

\* The last n elements of a sequence
LastOf(seq, n) == SubSeq(seq, Len(seq) - n + 1, Len(seq))

\* C28: the memory history holds at most 10 entries, the most recent
\* samples taken in the order they were taken; a tick appends its sample
\* and drops the oldest entry when that makes 11; stopping and starting
\* the monitor leaves the history as it is.
C28_HistoryBounded ==
    [][/\ Len(History(server')) <= 10
       /\ History(server')
             = LastOf(server'.sampled, Len(History(server')))
       /\ server'.clock # server.clock =>
             /\ Len(server'.sampled) = Len(server.sampled) + 1
             /\ History(server')
                   = LET all == Append(History(server),
                                       server'.sampled[Len(server'.sampled)])
                     IN  IF Len(all) = 11 THEN LastOf(all, 10) ELSE all
       /\ (/\ lastCall' # lastCall
           /\ lastCall'.op \in {"start", "stop",
                                 "startGlobalMemoryMonitoring"}
           /\ server.globalMemoryMonitor # Null) =>
             History(server') = History(server)]_vars

\* The monitor has been started again after more than 10 ticks: the
\* history holds the latest 10 samples, the first one taken is gone.
C28_Witness ==
    /\ lastCall.op = "start"
    /\ lastCall.before.globalMemoryMonitor.intervalId = Null
    /\ Len(server.sampled) > 10
    /\ Len(History(server)) = 10
    /\ History(server)[1].timestamp > server.sampled[1].timestamp
    /\ History(server)[10] = server.sampled[Len(server.sampled)]

-----------------------------------------------------------------------------
(* Properties of the memory status                                         *)

\* C29: a heap use of h MB is emergency when h > 1024, critical when
\* 500 < h <= 1024, warning when 200 < h <= 500 and healthy when h <= 200,
\* so a value at a threshold is in the lower class.
C29_StatusClasses ==
    fnOut.kind = "health" =>
        LET bytes == fnArgs.heapUsed
            mb == 1048576
        IN  /\ fnOut.status \in {"healthy", "warning", "critical",
                                  "emergency"}
            /\ fnOut.status = "emergency" <=> bytes > 1024 * mb
            /\ fnOut.status = "critical"
                  <=> (500 * mb < bytes /\ bytes <= 1024 * mb)
            /\ fnOut.status = "warning"
                  <=> (200 * mb < bytes /\ bytes <= 500 * mb)
            /\ fnOut.status = "healthy" <=> bytes <= 200 * mb

\* A heap use of exactly 500 MB is a warning.
C29_Witness ==
    /\ fnOut.kind = "health"
    /\ fnArgs.heapUsed = 500 * 1048576
    /\ fnOut.status = "warning"

-----------------------------------------------------------------------------
(* Properties of the client singleton                                      *)

\* The ids of the client objects of a state.
ClientIds(s) ==
    {s.destroyed[i].id : i \in DOMAIN s.destroyed}
        \cup (IF s.instance = Null THEN {} ELSE {s.instance.id})

\* In state s after the call: the objects that are not the singleton have
\* been destroyed and their config is cleared; a getInstance returned the
\* singleton it found, or with none a new object with no config.
OneSingleton(s, call) ==
    /\ Cardinality(ClientIds(s)) = ClientsCreated(s)
    /\ \A i \in DOMAIN s.destroyed : s.destroyed[i].config = Null
    /\ call.op = "getInstance" =>
          /\ call.returned = call.after.instance
          /\ call.before.instance # Null =>
                /\ call.returned = call.before.instance
                /\ call.after = call.before
          /\ call.before.instance = Null =>
                /\ call.returned.config = Null
                /\ call.returned.id \notin ClientIds(call.before)
                /\ call.after.destroyed = call.before.destroyed

\* C30: there is one NaverSearchClient singleton at most: getInstance
\* returns the instance that exists, so two calls in a row return the same
\* one; destroyInstance clears the config of the instance it drops, and
\* the next getInstance makes a new instance with no credentials.
C30_OneSingleton ==
    [][/\ OneSingleton(server', lastCall')
       /\ (lastCall.op = "getInstance" /\ lastCall'.op = "getInstance")
             => lastCall'.returned = lastCall.returned]_vars

\* getInstance after the initialized client of a cached server was
\* destroyed: a second object, with no config.
C30_Witness ==
    /\ lastCall.op = "getInstance"
    /\ lastCall.before.instance = Null
    /\ lastCall.before.globalServerInstance # Null
    /\ Len(lastCall.before.destroyed) = 1
    /\ lastCall.before.destroyed[1].config = Null
    /\ lastCall.returned = [id |-> 2, config |-> Null]

=============================================================================
